---- MODULE Spec2Model ----
(***************************************************************************)
(* DreamCanvas mobile client.                                              *)
(*                                                                         *)
(* Part I  : the generation store (mobile/src/stores/generationStore.ts),  *)
(*           its interval timer, its in-flight pollStatus invocations and  *)
(*           the calls the screens make into it.    specification: Spec    *)
(* Part II : the axios client with its 401 / token-refresh interceptor     *)
(*           (mobile/src/api/client.ts).            specification: SpecApi *)
(*                                                                         *)
(* Part III: the auth store (mobile/src/stores/authStore.ts).              *)
(*                                                 specification: SpecAuth *)
(* Part IV : the chat store, the settings store and the generation detail  *)
(*           screen.       specifications: SpecChat, SpecSettings,         *)
(*                                         SpecScreen                      *)
(*                                                                         *)
(* Spec drives the store through generate, the detail screen's             *)
(* startPolling / stopPolling and clearCurrentGeneration; the detail       *)
(* screen's own getById load is the subject of SpecScreen.  SpecEnhance is *)
(* Spec with the result of enhancePrompt added to the store; SpecTracking  *)
(* is Spec without the calls that stop polling.                            *)
(*                                                                         *)
(* JavaScript is single threaded: every action below is one run-to-        *)
(* completion piece of code, from an event (a call from a screen, a timer  *)
(* tick, the settlement of an awaited promise) up to the next await.       *)
(***************************************************************************)
EXTENDS Bags, FiniteSets, Integers, Sequences, TLC

\* null for strings, for records and for timer handles
NULL == "null"
NullRecord == [null |-> TRUE]
NoTimer == 0
NoToken == 0

\* ---------------------------------------------------------------- bounds
\* pollStatus invocations that may be in flight at the same time
MaxPolls == 2
\* full-record fetches counted per generation
MaxFetches == 2

\* ------------------------------------------------------------ data model
\* generation ids the server may assign
Ids == {"g1", "g2"}

\* GenerationStatus.  The client only ever tests a status against
\* 'completed' and 'failed'; the five in-progress statuses (pending,
\* processing, enhancing, generating, uploading) are handled by the same
\* code path, so two of them stand for the five.
InProgress == {"pending", "generating"}
Terminal == {"completed", "failed"}
GenerationStatus == InProgress \cup Terminal

IsTerminal(s) == s = "completed" \/ s = "failed"

\* position of a status in the server's forward-only progression
Rank(s) ==
  CASE s = "none" -> 0
    [] s = "pending" -> 1
    [] s = "generating" -> 2
    [] OTHER -> 3

VARIABLES
  \* ---- zustand store state (generationStore.ts:40-47)
  currentGeneration,   \* NullRecord or a Generation record
  isGenerating,
  generationError,     \* NULL or a message
  enhancedPrompt,      \* NULL or an enhancement result
  pollingInterval,     \* NoTimer or the handle returned by setInterval
  \* ---- JavaScript runtime
  timers,              \* live interval timers: set of [h, id]
  polls,               \* bag of in-flight pollStatus invocations
  creating,            \* generate awaiting generateApi.create: NULL, "sent",
                       \* or the id the server assigned
  \* ---- remote service
  server,              \* id -> "none" or the status of the generation
  \* ---- observation
  getByIdCalls,        \* id -> number of generateApi.getById calls made by
                       \* pollStatus
  lastEvent,           \* the event handled last
  \* ---- API client (Part II)
  accessToken,         \* SecureStore 'access_token': NoToken or a token
  refreshToken,        \* SecureStore 'refresh_token'
  isRefreshing,        \* module flag (client.ts:77)
  refreshSubscribers,  \* module list (client.ts:78): sequence of request ids
  requests,            \* request id -> state of the call made through apiClient
  user,                \* authStore.user
  logoutPending,       \* authStore.logout() awaiting authApi.logout()
  serverToken,         \* the access token the service accepts, or NoToken
  issued,              \* tokens the refresh endpoint has issued
  \* ---- auth store (Part III)
  isLoading,           \* authStore.isLoading
  isInitialized,       \* authStore.isInitialized
  error,               \* authStore.error
  authPc,              \* position of the auth store's running operation
  \* ---- chat store, settings store, generation detail screen (Part IV)
  chat,                \* useChatStore state
  chatSends,           \* number of sendMessage calls awaiting chatApi.chat
  returned,            \* what useSuggestedPrompt() returned last
  settings,            \* useSettingsStore state
  mounted,             \* id the generation detail screen is mounted for
  loads                \* the detail screen's getById loads in flight

genVars == <<currentGeneration, isGenerating, generationError, enhancedPrompt,
             pollingInterval, timers, polls, creating,
             server, getByIdCalls, lastEvent>>
apiVars == <<accessToken, refreshToken, isRefreshing, refreshSubscribers,
             requests, user, logoutPending, serverToken, issued>>
authVars == <<isLoading, isInitialized, error, authPc>>
uiVars == <<chat, chatSends, returned, settings, mounted, loads>>
appVars == <<authVars, uiVars>>
vars == <<genVars, apiVars, appVars>>

\* ------------------------------------------------------------ the server
\* POST /generate: the record returned by the creation call
SubmitRecord(id) ==
  [id |-> id, status |-> "pending", image_url |-> NULL,
   thumbnail_url |-> NULL, error_message |-> NULL, completed_at |-> NULL]

\* GET /generate/{id}: the full record; completed_at stands for the fields the
\* lightweight status endpoint omits
FullRecordAt(id, st) ==
  [id |-> id, status |-> st,
   image_url |-> IF st = "completed" THEN "img" ELSE NULL,
   thumbnail_url |-> IF st = "completed" THEN "thumb" ELSE NULL,
   error_message |-> IF st = "failed" THEN "boom" ELSE NULL,
   completed_at |-> IF IsTerminal(st) THEN "t" ELSE NULL]

FullRecord(id) == FullRecordAt(id, server[id])

\* GET /generate/{id}/status: the lightweight payloads for a status
StatusPayloads(st) ==
  IF st = "failed"
  THEN {[status |-> st, image_url |-> NULL, thumbnail_url |-> NULL, error |-> e] :
          e \in {NULL, "boom"}}
  ELSE {[status |-> st,
         image_url |-> IF st = "completed" THEN "img" ELSE NULL,
         thumbnail_url |-> IF st = "completed" THEN "thumb" ELSE NULL,
         error |-> NULL]}

AllPayloads == UNION {StatusPayloads(st) : st \in GenerationStatus}

\* ------------------------------------------------- store operations
\* The part of the state the store's operations read and write.
World ==
  [currentGeneration |-> currentGeneration, isGenerating |-> isGenerating,
   generationError |-> generationError, enhancedPrompt |-> enhancedPrompt,
   pollingInterval |-> pollingInterval, timers |-> timers, polls |-> polls,
   getByIdCalls |-> getByIdCalls]

Commit(w) ==
  /\ currentGeneration' = w.currentGeneration
  /\ isGenerating' = w.isGenerating
  /\ generationError' = w.generationError
  /\ enhancedPrompt' = w.enhancedPrompt
  /\ pollingInterval' = w.pollingInterval
  /\ timers' = w.timers
  /\ polls' = w.polls
  /\ getByIdCalls' = w.getByIdCalls

\* JavaScript truthiness of a nullable string
Truthy(x) == x # NULL
\* a || b
Or(a, b) == IF Truthy(a) THEN a ELSE b

\* setInterval: a handle no live timer uses
setInterval(w) ==
  CHOOSE h \in 1..(Cardinality(w.timers) + 1) :
    /\ \A t \in w.timers : t.h # h
    /\ \A k \in 1..(h - 1) : \E t \in w.timers : t.h = k

\* clearInterval(handle)
clearInterval(ts, handle) == {t \in ts : t.h # handle}

stopPollingAlsoResetsFlag(w) ==
  IF w.pollingInterval # NoTimer
  THEN [w EXCEPT !.timers = clearInterval(@, w.pollingInterval),
                 !.pollingInterval = NoTimer]
  ELSE [w EXCEPT !.isGenerating = FALSE]

stopPolling(w) ==
  IF w.pollingInterval # NoTimer
  THEN [w EXCEPT !.timers = clearInterval(@, w.pollingInterval),
                 !.pollingInterval = NoTimer]
  ELSE w

\* a pollStatus that sends the status request twice
pollStatusTwice(w, id) ==
  LET req == SetToBag({[id |-> id, pc |-> "getStatus", resp |-> NullRecord]})
  IN  [w EXCEPT !.polls = @ (+) req (+) req]

\* pollStatus(id) up to its first await: the status request is issued
pollStatus(w, id) ==
  [w EXCEPT !.polls = @ (+) SetToBag({[id |-> id, pc |-> "getStatus", resp |-> NullRecord]})]

\* a startPolling that does not stop the timer already running
startPollingKeepsOldTimer(w, id) ==
  LET h  == setInterval(w)
      w2 == [w EXCEPT !.timers = @ \cup {[h |-> h, id |-> id]},
                      !.pollingInterval = h]
  IN  pollStatus(w2, id)

startPolling(w, id) ==
  LET w1 == stopPolling(w)
      h  == setInterval(w1)
      w2 == [w1 EXCEPT !.timers = @ \cup {[h |-> h, id |-> id]},
                       !.pollingInterval = h]
  IN  pollStatus(w2, id)

clearCurrentGenerationKeepsEnhanced(w) ==
  [stopPolling(w) EXCEPT !.currentGeneration = NullRecord, !.isGenerating = FALSE,
                         !.generationError = NULL]

clearCurrentGeneration(w) ==
  [stopPolling(w) EXCEPT !.currentGeneration = NullRecord, !.isGenerating = FALSE,
                         !.generationError = NULL, !.enhancedPrompt = NULL]

\* a merge that takes every field of the payload as it comes
mergeStatusOverwrites(cg, status) ==
  IF cg # NullRecord
  THEN [cg EXCEPT !.status = status.status,
                  !.image_url = status.image_url,
                  !.thumbnail_url = status.thumbnail_url,
                  !.error_message = status.error]
  ELSE NullRecord

\* the merge of a status payload into the stored record (lines 78-89)
mergeStatus(cg, status) ==
  IF cg # NullRecord
  THEN [cg EXCEPT !.status = status.status,
                  !.image_url = Or(status.image_url, cg.image_url),
                  !.thumbnail_url = Or(status.thumbnail_url, cg.thumbnail_url),
                  !.error_message = Or(status.error, cg.error_message)]
  ELSE NullRecord

\* pollStatusResolved with the timer kept until the full record has arrived
pollStatusResolvedStopAfterFetch(w, p) ==
  LET status == p.resp
      w0 == [w EXCEPT !.polls = @ (-) SetToBag({p})]
      w1 == [w0 EXCEPT !.currentGeneration = mergeStatus(@, status)]
  IN  IF status.status = "completed"
      THEN [w1 EXCEPT !.isGenerating = FALSE,
                      !.getByIdCalls[p.id] = @ + 1,
                      !.polls = @ (+) SetToBag({[id |-> p.id, pc |-> "getById",
                                                 resp |-> NullRecord]})]
      ELSE IF status.status = "failed"
           THEN LET w2 == [stopPolling(w1) EXCEPT !.isGenerating = FALSE]
                IN  IF Truthy(status.error)
                    THEN [w2 EXCEPT !.generationError = status.error]
                    ELSE w2
           ELSE w1

\* pollStatusResolved that stops the timer on 'completed' only
pollStatusResolvedKeepsPollingOnFailed(w, p) ==
  LET status == p.resp
      w0 == [w EXCEPT !.polls = @ (-) SetToBag({p})]
      w1 == [w0 EXCEPT !.currentGeneration = mergeStatus(@, status)]
  IN  IF status.status = "completed"
      THEN LET w2 == [stopPolling(w1) EXCEPT !.isGenerating = FALSE]
           IN  [w2 EXCEPT !.getByIdCalls[p.id] = @ + 1,
                          !.polls = @ (+) SetToBag({[id |-> p.id, pc |-> "getById",
                                                     resp |-> NullRecord]})]
      ELSE IF status.status = "failed" /\ Truthy(status.error)
           THEN [w1 EXCEPT !.generationError = status.error, !.isGenerating = FALSE]
           ELSE w1

\* pollStatus from the resolution of getStatus up to the next await or the end
pollStatusResolved(w, p) ==
  LET status == p.resp
      w0 == [w EXCEPT !.polls = @ (-) SetToBag({p})]
      w1 == [w0 EXCEPT !.currentGeneration = mergeStatus(@, status)]
  IN  IF status.status = "completed" \/ status.status = "failed"
      THEN LET w2 == [stopPolling(w1) EXCEPT !.isGenerating = FALSE]
           IN  IF status.status = "completed"
               THEN [w2 EXCEPT !.getByIdCalls[p.id] = @ + 1,
                               !.polls = @ (+) SetToBag({[id |-> p.id, pc |-> "getById",
                                                          resp |-> NullRecord]})]
               ELSE IF Truthy(status.error)
                    THEN [w2 EXCEPT !.generationError = status.error]
                    ELSE w2
      ELSE w1

\* pollStatus from the resolution of getById to the end (lines 98-99)
pollStatusFetched(w, p, fullGeneration) ==
  [w EXCEPT !.polls = @ (-) SetToBag({p}), !.currentGeneration = fullGeneration]

\* a catch block that surfaces the transport error
pollStatusCaughtSetsError(w, p) ==
  [w EXCEPT !.polls = @ (-) SetToBag({p}), !.generationError = "Network Error"]

\* a catch block that gives up polling on a transport error
pollStatusCaughtStops(w, p) ==
  [stopPolling(w) EXCEPT !.polls = @ (-) SetToBag({p})]

\* the catch block (lines 104-107): the error is logged and swallowed
pollStatusCaught(w, p) ==
  [w EXCEPT !.polls = @ (-) SetToBag({p})]

HasRoom == BagCardinality(polls) < MaxPolls

GenInit ==
  /\ currentGeneration = NullRecord
  /\ isGenerating = FALSE
  /\ generationError = NULL
  /\ enhancedPrompt = NULL
  /\ pollingInterval = NoTimer
  /\ timers = {}
  /\ polls = EmptyBag
  /\ creating = NULL
  /\ server = [i \in Ids |-> "none"]
  /\ getByIdCalls = [i \in Ids |-> 0]
  /\ lastEvent = [type |-> "init", id |-> NULL]

Event(t, i) == lastEvent' = [type |-> t, id |-> i]

\* ------------------------------------------------------------- actions
\* generate screen, handleGenerate -> generate(request) up to the await
Generate ==
  /\ ~isGenerating
  /\ creating = NULL
  /\ isGenerating' = TRUE
  /\ generationError' = NULL
  /\ creating' = "sent"
  /\ Event("other", NULL)
  /\ UNCHANGED <<currentGeneration, enhancedPrompt, pollingInterval,
                 timers, polls, server, getByIdCalls>>
  /\ UNCHANGED <<apiVars, appVars>>

\* the service accepts the creation request and assigns an id
ServerCreate(id) ==
  /\ creating = "sent"
  /\ server[id] = "none"
  /\ server' = [server EXCEPT ![id] = "pending"]
  /\ creating' = id
  /\ UNCHANGED <<currentGeneration, isGenerating, generationError, enhancedPrompt,
                 pollingInterval, timers, polls, getByIdCalls,
                 lastEvent>>
  /\ UNCHANGED <<apiVars, appVars>>

\* generate after generateApi.create resolved (lines 56-61)
GenerateResolved ==
  /\ creating \in Ids
  /\ HasRoom
  /\ Commit(startPolling([World EXCEPT !.currentGeneration = SubmitRecord(creating)],
                         creating))
  /\ creating' = NULL
  /\ Event("generated", NULL)
  /\ UNCHANGED server
  /\ UNCHANGED <<apiVars, appVars>>

\* a variant of GenerateRejected that leaves isGenerating set
GenerateRejectedKeepsFlag ==
  /\ creating # NULL
  /\ generationError' = "Failed to start generation"
  /\ creating' = NULL
  /\ Event("generateFailed", NULL)
  /\ UNCHANGED <<currentGeneration, isGenerating, enhancedPrompt, pollingInterval,
                 timers, polls, server, getByIdCalls>>
  /\ UNCHANGED <<apiVars, appVars>>

\* generate after generateApi.create rejected (lines 62-69)
GenerateRejected ==
  /\ creating # NULL
  /\ generationError' = "Failed to start generation"
  /\ isGenerating' = FALSE
  /\ creating' = NULL
  /\ Event("generateFailed", NULL)
  /\ UNCHANGED <<currentGeneration, enhancedPrompt, pollingInterval,
                 timers, polls, server, getByIdCalls>>
  /\ UNCHANGED <<apiVars, appVars>>

\* detail screen effect, the record is already loaded ([id].tsx:43-51)
ScreenStartPolling(id) ==
  /\ currentGeneration # NullRecord
  /\ currentGeneration.id = id
  /\ ~IsTerminal(currentGeneration.status)
  /\ HasRoom
  /\ Commit(startPolling(World, id))
  /\ Event("other", NULL)
  /\ UNCHANGED <<creating, server>>
  /\ UNCHANGED <<apiVars, appVars>>

\* stopPolling() from the detail screen (effect cleanup, Leave)
StopPolling ==
  /\ Commit(stopPolling(World))
  /\ Event("stopPolling", NULL)
  /\ UNCHANGED <<creating, server>>
  /\ UNCHANGED <<apiVars, appVars>>

\* clearCurrentGeneration() from either screen
ClearCurrentGeneration ==
  /\ Commit(clearCurrentGeneration(World))
  /\ Event("clear", NULL)
  /\ UNCHANGED <<creating, server>>
  /\ UNCHANGED <<apiVars, appVars>>

\* the interval callback (lines 116-118)
Tick(t) ==
  /\ t \in timers
  /\ HasRoom
  /\ Commit(pollStatus(World, t.id))
  /\ Event("other", NULL)
  /\ UNCHANGED <<creating, server>>
  /\ UNCHANGED <<apiVars, appVars>>

\* the service moves a generation forward; terminal statuses are final
ServerAdvance(id, st) ==
  /\ server[id] \in InProgress
  /\ st \in GenerationStatus
  /\ Rank(st) > Rank(server[id])
  /\ server' = [server EXCEPT ![id] = st]
  /\ UNCHANGED <<currentGeneration, isGenerating, generationError, enhancedPrompt,
                 pollingInterval, timers, polls, creating,
                 getByIdCalls, lastEvent>>
  /\ UNCHANGED <<apiVars, appVars>>

\* the service answers a status request; the answer then travels
ServerRespond(p, resp) ==
  /\ BagIn(p, polls)
  /\ p.pc = "getStatus" /\ p.resp = NullRecord
  /\ resp \in StatusPayloads(server[p.id])
  /\ polls' = (polls (-) SetToBag({p})) (+) SetToBag({[p EXCEPT !.resp = resp]})
  /\ UNCHANGED <<currentGeneration, isGenerating, generationError, enhancedPrompt,
                 pollingInterval, timers, creating, server,
                 getByIdCalls, lastEvent>>
  /\ UNCHANGED <<apiVars, appVars>>

\* await generateApi.getStatus(id) resolves (lines 75-103)
StatusResolved(p) ==
  /\ BagIn(p, polls)
  /\ p.pc = "getStatus" /\ p.resp # NullRecord
  /\ p.resp.status = "completed" => getByIdCalls[p.id] < MaxFetches
  /\ Commit(pollStatusResolved(World, p))
  /\ Event(p.resp.status, p.id)
  /\ UNCHANGED <<creating, server>>
  /\ UNCHANGED <<apiVars, appVars>>

\* await generateApi.getStatus(id) rejects: transport error (lines 104-107)
StatusRejected(p) ==
  /\ BagIn(p, polls)
  /\ p.pc = "getStatus"
  /\ Commit(pollStatusCaught(World, p))
  /\ Event("pollError", p.id)
  /\ UNCHANGED <<creating, server>>
  /\ UNCHANGED <<apiVars, appVars>>

\* await generateApi.getById(id) resolves (lines 98-99)
FetchResolved(p) ==
  /\ BagIn(p, polls)
  /\ p.pc = "getById"
  /\ Commit(pollStatusFetched(World, p, FullRecord(p.id)))
  /\ Event("fetched", p.id)
  /\ UNCHANGED <<creating, server>>
  /\ UNCHANGED <<apiVars, appVars>>

\* await generateApi.getById(id) rejects (lines 104-107)
FetchRejected(p) ==
  /\ BagIn(p, polls)
  /\ p.pc = "getById"
  /\ Commit(pollStatusCaught(World, p))
  /\ Event("fetchError", p.id)
  /\ UNCHANGED <<creating, server>>
  /\ UNCHANGED <<apiVars, appVars>>

PollSet == BagToSet(polls)

Next ==
  \/ Generate
  \/ \E id \in Ids : ServerCreate(id)
  \/ GenerateResolved
  \/ GenerateRejected
  \/ \E id \in Ids : ScreenStartPolling(id)
  \/ StopPolling
  \/ ClearCurrentGeneration
  \/ \E t \in timers : Tick(t)
  \/ \E id \in Ids, st \in GenerationStatus : ServerAdvance(id, st)
  \/ \E p \in PollSet, resp \in AllPayloads : ServerRespond(p, resp)
  \/ \E p \in PollSet : StatusResolved(p)
  \/ \E p \in PollSet : StatusRejected(p)
  \/ \E p \in PollSet : FetchResolved(p)
  \/ \E p \in PollSet : FetchRejected(p)

\* Part I leaves the API client untouched: its calls are the awaits above
ApiIdle ==
  /\ accessToken = NoToken /\ refreshToken = NoToken /\ isRefreshing = FALSE
  /\ refreshSubscribers = <<>> /\ requests = <<>> /\ user = NULL
  /\ logoutPending = FALSE /\ serverToken = NoToken /\ issued = 0

\* the auth store once the application has started and nothing is running
AuthIdle ==
  /\ isLoading = FALSE /\ isInitialized = TRUE /\ error = NULL /\ authPc = "idle"

\* the chat and settings stores as created, no detail screen mounted
DEFAULT_SETTINGS ==
  [theme |-> "system", defaultStyle |-> "vivid", defaultQuality |-> "standard",
   defaultSize |-> "1024x1024", autoEnhancePrompts |-> TRUE,
   notificationsEnabled |-> TRUE, hapticFeedbackEnabled |-> TRUE]

ChatInit ==
  /\ chat = [messages |-> <<>>, isLoading |-> FALSE, error |-> NULL,
             suggestedPrompt |-> NULL]
  /\ chatSends = 0
  /\ returned = NULL

SettingsInit == settings = DEFAULT_SETTINGS

ScreenInit == mounted = NULL /\ loads = EmptyBag

UiIdle == ChatInit /\ SettingsInit /\ ScreenInit

Init == GenInit /\ ApiIdle /\ AuthIdle /\ UiIdle
Spec == Init /\ [][Next]_vars

\* enhancePrompt after chatApi.enhancePrompt resolved (lines 139-140)
EnhanceResolved ==
  /\ enhancedPrompt' = "enhanced"
  /\ Event("other", NULL)
  /\ UNCHANGED <<currentGeneration, isGenerating, generationError, pollingInterval,
                 timers, polls, creating, server, getByIdCalls>>
  /\ UNCHANGED <<apiVars, appVars>>

\* the store with the prompt enhancement next to the generation tracking
NextEnhance ==
  \/ Next
  \/ EnhanceResolved

SpecEnhance == Init /\ [][NextEnhance]_vars

\* =====================================================================
\* Properties of Part I (specification Spec)
\* =====================================================================

HasRecord == currentGeneration # NullRecord
SomeStatusResolved == \E p \in PollSet : StatusResolved(p)

\* C1: for a tracked generation whose polls end in 'completed', pollStatus
\* issues exactly one generateApi.getById for that generation: at least one
\* once a 'completed' response has been handled, and never two or more.
C1_ExactlyOneFetch ==
  /\ \A id \in Ids : getByIdCalls[id] <= 1
  /\ lastEvent.type = "completed" => getByIdCalls[lastEvent.id] >= 1

\* C2 (as claimed): the timer is cancelled after the full-record fetch and
\* never before it, so the step that issues getById leaves an active timer
\* active.
C2_TimerOutlivesFetchIssue ==
  [][(getByIdCalls' # getByIdCalls /\ pollingInterval # NoTimer)
       => pollingInterval' # NoTimer]_vars

\* C2 (amended): the timer is cancelled in the handling of the 'completed'
\* response, before the full-record fetch is issued: every step that issues
\* getById ends with pollingInterval null and no live timer.
C2_TimerCancelledBeforeFetch ==
  [][getByIdCalls' # getByIdCalls
       => (pollingInterval' = NoTimer /\ timers' = {})]_vars

C2_Witness ==
  /\ lastEvent.type = "completed"
  /\ pollingInterval = NoTimer
  /\ \E p \in PollSet : p.pc = "getById" /\ p.id = lastEvent.id
  /\ getByIdCalls[lastEvent.id] = 1

\* C3: the step that handles a response reporting 'failed' cancels the timer
\* (no timer is left to tick) and issues no getById; and for a generation
\* that failed no full-record fetch is ever issued or in flight.
C3_FailedStopsTimerNoFetch ==
  /\ [](\A id \in Ids : server[id] = "failed" =>
          /\ getByIdCalls[id] = 0
          /\ \A p \in PollSet : p.id = id => p.pc # "getById")
  /\ [][\A p \in PollSet :
          (StatusResolved(p) /\ p.resp.status = "failed")
            => /\ pollingInterval' = NoTimer
               /\ timers' = {}
               /\ getByIdCalls' = getByIdCalls
               /\ \A q \in BagToSet(polls') : q.pc = "getById" => BagIn(q, polls)]_vars

C3_Witness ==
  /\ lastEvent.type = "failed"
  /\ server[lastEvent.id] = "failed"
  /\ HasRecord
  /\ currentGeneration.status = "failed"
  /\ pollingInterval = NoTimer
  /\ timers = {}
  /\ getByIdCalls[lastEvent.id] = 0

\* C4: once another id is being polled, a late status response for the
\* abandoned id changes neither currentGeneration, isGenerating,
\* generationError nor the timer of the id now polled.
C4_LateResponseIgnored ==
  [][\A p \in PollSet :
       (StatusResolved(p) /\ \E t \in timers : t.id # p.id)
         => UNCHANGED <<currentGeneration, isGenerating, generationError,
                        pollingInterval, timers>>]_vars

\* C5: a transport error on a status poll leaves the stored record (its
\* status included) and the poll timer as they were.
C5_TransportErrorKeepsState ==
  [][(\E p \in PollSet : StatusRejected(p))
       => UNCHANGED <<currentGeneration, pollingInterval, timers>>]_vars

C5_Witness ==
  /\ lastEvent.type = "pollError"
  /\ HasRecord
  /\ currentGeneration.id = lastEvent.id
  /\ ~IsTerminal(currentGeneration.status)
  /\ pollingInterval # NoTimer

\* C6: once the stored record's status is 'completed' or 'failed', the record
\* is immutable; in particular no later status response returns its status to
\* a non-terminal value.
C6_TerminalRecordImmutable ==
  [][(HasRecord /\ SomeStatusResolved)
       => (IsTerminal(currentGeneration.status)
             => IsTerminal(currentGeneration'.status))]_vars

\* C7: a status response that arrives after stopPolling() or
\* clearCurrentGeneration() is discarded: it changes no tracker state and
\* triggers no further request.
C7_ResponseAfterStopDiscarded ==
  [][(lastEvent.type \in {"stopPolling", "clear"} /\ SomeStatusResolved)
       => UNCHANGED <<currentGeneration, isGenerating, generationError,
                      pollingInterval, getByIdCalls>>]_vars

\* C8: a stored record that came from the full-record fetch (only that fetch
\* sets completed_at) equals exactly the full record, also after every
\* outstanding response has arrived.
C8_FinalRecordIsFullRecord ==
  (HasRecord /\ polls = EmptyBag)
    => (currentGeneration.completed_at # NULL
          => currentGeneration = FullRecordAt(currentGeneration.id, "completed"))

\* C9: stopPolling is idempotent (applying it to its own result changes
\* nothing) and changes nothing when no timer is active.
C9_StopPollingIdempotent ==
  LET once == stopPolling(World)
  IN  /\ stopPolling(once) = once
      /\ once.pollingInterval = NoTimer
      /\ pollingInterval = NoTimer => once = World

C9_Witness ==
  /\ lastEvent.type = "stopPolling"
  /\ pollingInterval = NoTimer
  /\ timers = {}
  /\ isGenerating
  /\ HasRecord

\* generate settles: the creation request is no longer in flight
GenerateSettles == creating # NULL /\ creating' = NULL

\* C19: when the creation request succeeds, the returned record is stored as
\* currentGeneration and a poll timer for the returned id is live when
\* generate resolves; when it fails, generate starts no timer and no poll,
\* sets generationError, sets isGenerating to false and sends nothing again.
C19_GenerateOutcome ==
  [][GenerateSettles =>
       \/ /\ lastEvent'.type = "generated"
          /\ creating \in Ids
          /\ currentGeneration' = SubmitRecord(creating)
          /\ pollingInterval' # NoTimer
          /\ [h |-> pollingInterval', id |-> creating] \in timers'
       \/ /\ lastEvent'.type = "generateFailed"
          /\ timers' = timers
          /\ pollingInterval' = pollingInterval
          /\ polls' = polls
          /\ currentGeneration' = currentGeneration
          /\ generationError' # NULL
          /\ ~isGenerating']_vars

C19_Witness ==
  /\ lastEvent.type = "generateFailed"
  /\ generationError = "Failed to start generation"
  /\ ~isGenerating
  /\ creating = NULL
  /\ timers = {}
  /\ currentGeneration # NullRecord
  /\ currentGeneration.status = "completed"

\* C20: clearCurrentGeneration, from any state, cancels the poll timer and
\* leaves pollingInterval, currentGeneration, generationError and
\* enhancedPrompt null and isGenerating false.
C20_ClearLeavesNothing ==
  lastEvent.type = "clear" =>
    /\ pollingInterval = NoTimer
    /\ timers = {}
    /\ currentGeneration = NullRecord
    /\ generationError = NULL
    /\ enhancedPrompt = NULL
    /\ ~isGenerating

C20_Witness ==
  /\ lastEvent.type = "clear"
  /\ polls # EmptyBag
  /\ pollingInterval = NoTimer
  /\ timers = {}
  /\ currentGeneration = NullRecord
  /\ enhancedPrompt = NULL
  /\ \E id \in Ids : server[id] = "generating"

\* the number of status requests for id that are in flight in the bag b
StatusRequests(b, id) ==
  LET open == {p \in BagToSet(b) : p.pc = "getStatus" /\ p.id = id}
      RECURSIVE Sum(_)
      Sum(S) == IF S = {} THEN 0
                ELSE LET p == CHOOSE q \in S : TRUE
                     IN  CopiesIn(p, b) + Sum(S \ {p})
  IN  Sum(open)

\* C24 (as claimed): polls for one generation id are serialized: at no time
\* are two status requests for the same id in flight, whether issued by
\* startPolling or by an interval tick.
C24_StatusRequestsSerialized ==
  \A id \in Ids : StatusRequests(polls, id) <= 1

\* C24 (amended): polls are paced by the timer, not by their responses: a
\* step issues at most one status request, and only for an id that a timer
\* ticks for or that startPolling has just been called with; it is issued
\* whether or not an earlier request for that id is still in flight.
C24_StatusRequestsPaced ==
  [][\A id \in Ids :
       StatusRequests(polls', id) > StatusRequests(polls, id) =>
         /\ StatusRequests(polls', id) = StatusRequests(polls, id) + 1
         /\ \A other \in Ids \ {id} :
              StatusRequests(polls', other) <= StatusRequests(polls, other)
         /\ \/ \E t \in timers : t.id = id
            \/ \E t \in timers' : t.id = id /\ t.h = pollingInterval']_vars

\* a tick has issued a status request while the previous one for the same id
\* is still unanswered
C24_Witness ==
  \E id \in Ids :
    /\ StatusRequests(polls, id) = 2
    /\ \E t \in timers : t.id = id /\ t.h = pollingInterval
    /\ \A p \in PollSet : p.resp = NullRecord

\* C25: the step that handles a successful status response with a record
\* stored keeps the record's id and completed_at (the fields the payload
\* does not carry), sets status from the payload, and sets image_url,
\* thumbnail_url and error_message from the payload only where the payload
\* has a value: a field the payload omits keeps its stored value.
C25_MergeKeepsKnownFields ==
  [][\A p \in PollSet :
       (StatusResolved(p) /\ HasRecord) =>
         LET cg == currentGeneration
             status == p.resp
         IN  /\ currentGeneration' # NullRecord
             /\ currentGeneration'.id = cg.id
             /\ currentGeneration'.completed_at = cg.completed_at
             /\ currentGeneration'.status = status.status
             /\ currentGeneration'.image_url =
                  (IF status.image_url = NULL THEN cg.image_url ELSE status.image_url)
             /\ currentGeneration'.thumbnail_url =
                  (IF status.thumbnail_url = NULL THEN cg.thumbnail_url
                   ELSE status.thumbnail_url)
             /\ currentGeneration'.error_message =
                  (IF status.error = NULL THEN cg.error_message ELSE status.error)]_vars

\* a payload without image_url has been merged into a fully fetched record
C25_Witness ==
  /\ lastEvent.type \in InProgress
  /\ HasRecord
  /\ currentGeneration.id = lastEvent.id
  /\ currentGeneration.status = lastEvent.type
  /\ currentGeneration.image_url = "img"
  /\ currentGeneration.thumbnail_url = "thumb"
  /\ currentGeneration.completed_at = "t"

\* C26: polling swallows transport errors: a step in which getStatus or
\* getById fails only ends that pollStatus invocation and leaves
\* generationError and isGenerating as they were; a polling step changes
\* generationError only when it handles a response reporting 'failed', and
\* then to the error the server reported.
C26_PollingSwallowsTransportErrors ==
  [][\A p \in PollSet :
       /\ (StatusRejected(p) \/ FetchRejected(p)) =>
            /\ polls' = polls (-) SetToBag({p})
            /\ UNCHANGED <<generationError, isGenerating>>
       /\ ((StatusResolved(p) \/ FetchResolved(p))
             /\ generationError' # generationError) =>
            /\ p.pc = "getStatus"
            /\ p.resp.status = "failed"
            /\ generationError' = p.resp.error]_vars

\* the full-record fetch of a completed generation has failed and nothing
\* reports it
C26_Witness ==
  /\ lastEvent.type = "fetchError"
  /\ generationError = NULL
  /\ HasRecord
  /\ currentGeneration.id = lastEvent.id
  /\ currentGeneration.status = "completed"
  /\ currentGeneration.completed_at = NULL
  /\ getByIdCalls[lastEvent.id] = 1
  /\ polls = EmptyBag

\* C27: whenever isGenerating is true, a submission request is in flight or
\* a poll timer is active.
C27_GeneratingHasDriver ==
  isGenerating => (creating # NULL \/ pollingInterval # NoTimer)

\* C28: at most one interval timer is live and it is the one recorded in
\* pollingInterval; a recorded handle always belongs to a live timer, so a
\* timer that startPolling created and that is no longer recorded has been
\* cleared.
C28_OnlyRecordedTimerLive ==
  /\ Cardinality(timers) <= 1
  /\ \A t \in timers : t.h = pollingInterval
  /\ pollingInterval # NoTimer => \E t \in timers : t.h = pollingInterval

\* a second generation is being polled while a request issued for the first
\* one is still in flight: the first generation's timer is gone
C28_Witness ==
  \E id \in Ids :
    /\ timers = {[h |-> pollingInterval, id |-> id]}
    /\ pollingInterval # NoTimer
    /\ \E p \in PollSet : p.id # id /\ p.pc = "getStatus"
    /\ \E p \in PollSet : p.id = id /\ p.pc = "getStatus"

\* =====================================================================
\* Part II: the API client (api/client.ts)
\* =====================================================================
\* calls made through apiClient that may be outstanding
MaxRequests == 2
\* token pairs the refresh and login endpoints may issue
MaxTokens == 2

Reqs == 1..MaxRequests

\* 'api': any endpoint but login/register; 'login': /auth/login, /auth/register
Kinds == {"api", "login"}

NewRequest ==
  [kind |-> "api", pc |-> "new", retry |-> FALSE, auth |-> NoToken,
   fresh |-> NoToken, replays |-> 0, result |-> NULL]

Range(f) == {f[i] : i \in DOMAIN f}

\* request interceptor (lines 56-69): the stored access token, when there is
\* one, becomes the Authorization header; otherwise the header is left as is
attachToken(req, token) ==
  IF token # NoToken THEN [req EXCEPT !.auth = token] ELSE req

\* subscribeTokenRefresh (lines 80-82)
subscribeTokenRefresh(subs, r) == Append(subs, r)

\* a variant of replayQueued that replays with the header the request had
replayQueuedKeepsHeader(req, token) == [req EXCEPT !.pc = "replay"]

\* the callback queued at lines 127-130, called with the new token: the header
\* is set and the original request is handed to apiClient again
replayQueued(req, token) == [req EXCEPT !.auth = token, !.pc = "replay"]

\* onTokenRefreshed (lines 84-87): every callback is called, the list emptied
onTokenRefreshed(reqs, subs, token) ==
  [r \in Reqs |-> IF r \in Range(subs) THEN replayQueued(reqs[r], token) ELSE reqs[r]]

\* onRefreshFailed (lines 89-91): the list is emptied, no callback is called
onRefreshFailed(reqs, subs) == reqs

\* Promise.reject(error)
reject(req, err) == [req EXCEPT !.pc = "rejected", !.result = err]

ApiInit ==
  /\ accessToken = 1 /\ refreshToken = 1 /\ serverToken = 1
  /\ isRefreshing = FALSE
  /\ refreshSubscribers = <<>>
  /\ requests = [r \in Reqs |-> NewRequest]
  /\ user = "user"
  /\ logoutPending = FALSE
  /\ issued = 0

\* a call through apiClient: the request interceptor runs, the request leaves
Send(r, kind) ==
  /\ requests[r].pc = "new"
  /\ requests' = [requests EXCEPT
                    ![r] = [attachToken(@, accessToken) EXCEPT !.kind = kind, !.pc = "sent"]]
  /\ UNCHANGED <<accessToken, refreshToken, isRefreshing, refreshSubscribers, user,
                 logoutPending, serverToken, issued>>
  /\ UNCHANGED <<genVars, appVars>>

\* apiClient(originalRequest): the request interceptor runs again
Replay(r) ==
  /\ requests[r].pc = "replay"
  /\ requests' = [requests EXCEPT
                    ![r] = [attachToken(@, accessToken) EXCEPT !.pc = "sent",
                                                               !.replays = @ + 1]]
  /\ UNCHANGED <<accessToken, refreshToken, isRefreshing, refreshSubscribers, user,
                 logoutPending, serverToken, issued>>
  /\ UNCHANGED <<genVars, appVars>>

Authorized(req) == req.auth # NoToken /\ req.auth = serverToken

\* 2xx: the response interceptor passes the response on (lines 94-100)
Respond2xx(r) ==
  /\ requests[r].pc = "sent"
  /\ requests[r].kind = "api"
  /\ Authorized(requests[r])
  /\ requests' = [requests EXCEPT ![r].pc = "resolved", ![r].result = "data"]
  /\ UNCHANGED <<accessToken, refreshToken, isRefreshing, refreshSubscribers, user,
                 logoutPending, serverToken, issued>>
  /\ UNCHANGED <<genVars, appVars>>

\* a variant of Respond401 without the login/register exclusion
Respond401NoExclusion(r) ==
  /\ requests[r].pc = "sent"
  /\ requests[r].kind = "login" \/ ~Authorized(requests[r])
  /\ IF ~requests[r].retry
     THEN IF isRefreshing
          THEN /\ requests' = [requests EXCEPT ![r].pc = "waiting"]
               /\ refreshSubscribers' = subscribeTokenRefresh(refreshSubscribers, r)
               /\ UNCHANGED isRefreshing
          ELSE /\ requests' = [requests EXCEPT ![r].retry = TRUE,
                                               ![r].pc = "getRefreshToken"]
               /\ isRefreshing' = TRUE
               /\ UNCHANGED refreshSubscribers
     ELSE /\ requests' = [requests EXCEPT ![r] = reject(@, "401")]
          /\ UNCHANGED <<isRefreshing, refreshSubscribers>>
  /\ UNCHANGED <<accessToken, refreshToken, user, logoutPending, serverToken, issued>>
  /\ UNCHANGED <<genVars, appVars>>

\* a variant of Respond401 that does not look at isRefreshing
Respond401IgnoresFlag(r) ==
  /\ requests[r].pc = "sent"
  /\ requests[r].kind = "login" \/ ~Authorized(requests[r])
  /\ IF ~requests[r].retry
     THEN IF requests[r].kind = "login"
          THEN /\ requests' = [requests EXCEPT ![r] = reject(@, "401")]
               /\ UNCHANGED <<isRefreshing, refreshSubscribers>>
          ELSE /\ requests' = [requests EXCEPT ![r].retry = TRUE,
                                               ![r].pc = "getRefreshToken"]
               /\ isRefreshing' = TRUE
               /\ UNCHANGED refreshSubscribers
     ELSE /\ requests' = [requests EXCEPT ![r] = reject(@, "401")]
          /\ UNCHANGED <<isRefreshing, refreshSubscribers>>
  /\ UNCHANGED <<accessToken, refreshToken, user, logoutPending, serverToken, issued>>
  /\ UNCHANGED <<genVars, appVars>>

\* 401: the error interceptor up to its first await or return (lines 101-135)
Respond401(r) ==
  /\ requests[r].pc = "sent"
  /\ requests[r].kind = "login" \/ ~Authorized(requests[r])
  /\ IF ~requests[r].retry
     THEN IF requests[r].kind = "login"
          THEN /\ requests' = [requests EXCEPT ![r] = reject(@, "401")]
               /\ UNCHANGED <<isRefreshing, refreshSubscribers>>
          ELSE IF isRefreshing
               THEN /\ requests' = [requests EXCEPT ![r].pc = "waiting"]
                    /\ refreshSubscribers' = subscribeTokenRefresh(refreshSubscribers, r)
                    /\ UNCHANGED isRefreshing
               ELSE /\ requests' = [requests EXCEPT ![r].retry = TRUE,
                                                    ![r].pc = "getRefreshToken"]
                    /\ isRefreshing' = TRUE
                    /\ UNCHANGED refreshSubscribers
     ELSE /\ requests' = [requests EXCEPT ![r] = reject(@, "401")]
          /\ UNCHANGED <<isRefreshing, refreshSubscribers>>
  /\ UNCHANGED <<accessToken, refreshToken, user, logoutPending, serverToken, issued>>
  /\ UNCHANGED <<genVars, appVars>>

\* any other error status (lines 178-179)
RespondError(r) ==
  /\ requests[r].pc = "sent"
  /\ requests' = [requests EXCEPT ![r] = reject(@, "error")]
  /\ UNCHANGED <<accessToken, refreshToken, isRefreshing, refreshSubscribers, user,
                 logoutPending, serverToken, issued>>
  /\ UNCHANGED <<genVars, appVars>>

\* no response at all (lines 170-176)
NetworkError(r) ==
  /\ requests[r].pc = "sent"
  /\ requests' = [requests EXCEPT ![r] = reject(@, "network")]
  /\ UNCHANGED <<accessToken, refreshToken, isRefreshing, refreshSubscribers, user,
                 logoutPending, serverToken, issued>>
  /\ UNCHANGED <<genVars, appVars>>

\* the catch block up to its await (lines 157-160)
CatchRefreshError(r) ==
  /\ isRefreshing' = FALSE
  /\ requests' = [onRefreshFailed(requests, refreshSubscribers) EXCEPT ![r].pc = "clearAccess"]
  /\ refreshSubscribers' = <<>>

\* await tokenStorage.getRefreshToken() settles (lines 138-147)
RefreshTokenRead(r) ==
  /\ requests[r].pc = "getRefreshToken"
  /\ IF refreshToken = NoToken
     THEN CatchRefreshError(r)
     ELSE /\ requests' = [requests EXCEPT ![r].pc = "post"]
          /\ UNCHANGED <<isRefreshing, refreshSubscribers>>
  /\ UNCHANGED <<accessToken, refreshToken, user, logoutPending, serverToken, issued>>
  /\ UNCHANGED <<genVars, appVars>>

\* POST /auth/refresh answers with a new token pair (lines 144-150)
RefreshResolved(r) ==
  /\ requests[r].pc = "post"
  /\ issued < MaxTokens
  /\ issued' = issued + 1
  /\ serverToken' = issued + 2
  /\ requests' = [requests EXCEPT ![r].pc = "setAccess", ![r].fresh = issued + 2]
  /\ UNCHANGED <<accessToken, refreshToken, isRefreshing, refreshSubscribers, user,
                 logoutPending>>
  /\ UNCHANGED <<genVars, appVars>>

\* POST /auth/refresh fails (lines 157-160)
RefreshRejected(r) ==
  /\ requests[r].pc = "post"
  /\ CatchRefreshError(r)
  /\ UNCHANGED <<accessToken, refreshToken, user, logoutPending, serverToken, issued>>
  /\ UNCHANGED <<genVars, appVars>>

\* a variant of SetAccessToken that goes on without writing the access token
SetAccessTokenSkipsWrite(r) ==
  /\ requests[r].pc = "setAccess"
  /\ requests' = [requests EXCEPT ![r].pc = "setRefresh"]
  /\ UNCHANGED <<accessToken, refreshToken, isRefreshing, refreshSubscribers, user,
                 logoutPending, serverToken, issued>>
  /\ UNCHANGED <<genVars, appVars>>

\* setTokens, first write (line 45)
SetAccessToken(r) ==
  /\ requests[r].pc = "setAccess"
  /\ accessToken' = requests[r].fresh
  /\ requests' = [requests EXCEPT ![r].pc = "setRefresh"]
  /\ UNCHANGED <<refreshToken, isRefreshing, refreshSubscribers, user,
                 logoutPending, serverToken, issued>>
  /\ UNCHANGED <<genVars, appVars>>

\* setTokens, second write, then lines 152-156
SetRefreshToken(r) ==
  /\ requests[r].pc = "setRefresh"
  /\ refreshToken' = requests[r].fresh
  /\ requests' = [onTokenRefreshed(requests, refreshSubscribers, requests[r].fresh)
                    EXCEPT ![r] = replayQueued(@, requests[r].fresh)]
  /\ refreshSubscribers' = <<>>
  /\ isRefreshing' = FALSE
  /\ UNCHANGED <<accessToken, user, logoutPending, serverToken, issued>>
  /\ UNCHANGED <<genVars, appVars>>

\* clearTokens, first delete (line 50)
ClearAccessToken(r) ==
  /\ requests[r].pc = "clearAccess"
  /\ accessToken' = NoToken
  /\ requests' = [requests EXCEPT ![r].pc = "clearRefresh"]
  /\ UNCHANGED <<refreshToken, isRefreshing, refreshSubscribers, user,
                 logoutPending, serverToken, issued>>
  /\ UNCHANGED <<genVars, appVars>>

\* clearTokens, second delete, then lines 162-166: logout() is started (not
\* awaited) and the refresh error is rejected to the caller
ClearRefreshToken(r) ==
  /\ requests[r].pc = "clearRefresh"
  /\ refreshToken' = NoToken
  /\ logoutPending' = TRUE
  /\ isLoading' = TRUE
  /\ requests' = [requests EXCEPT ![r] = reject(@, "refreshError")]
  /\ UNCHANGED <<accessToken, isRefreshing, refreshSubscribers, user,
                 serverToken, issued>>
  /\ UNCHANGED <<genVars, uiVars, isInitialized, error, authPc>>

\* authStore.logout after authApi.logout() settled (authStore.ts:97-106)
LogoutSettled ==
  /\ logoutPending
  /\ accessToken' = NoToken
  /\ refreshToken' = NoToken
  /\ user' = NULL
  /\ logoutPending' = FALSE
  /\ isLoading' = FALSE
  /\ error' = NULL
  /\ UNCHANGED <<isRefreshing, refreshSubscribers, requests, serverToken, issued>>
  /\ UNCHANGED <<genVars, uiVars, isInitialized, authPc>>

\* the access token the service accepts expires
TokenExpires ==
  /\ serverToken # NoToken
  /\ serverToken' = NoToken
  /\ UNCHANGED <<accessToken, refreshToken, isRefreshing, refreshSubscribers,
                 requests, user, logoutPending, issued>>
  /\ UNCHANGED <<genVars, appVars>>

NextApi ==
  \/ \E r \in Reqs, kind \in Kinds : Send(r, kind)
  \/ \E r \in Reqs : Replay(r)
  \/ \E r \in Reqs : Respond2xx(r)
  \/ \E r \in Reqs : Respond401(r)
  \/ \E r \in Reqs : RespondError(r)
  \/ \E r \in Reqs : NetworkError(r)
  \/ \E r \in Reqs : RefreshTokenRead(r)
  \/ \E r \in Reqs : RefreshResolved(r)
  \/ \E r \in Reqs : RefreshRejected(r)
  \/ \E r \in Reqs : SetAccessToken(r)
  \/ \E r \in Reqs : SetRefreshToken(r)
  \/ \E r \in Reqs : ClearAccessToken(r)
  \/ \E r \in Reqs : ClearRefreshToken(r)
  \/ LogoutSettled
  \/ TokenExpires

InitApi == GenInit /\ ApiInit /\ AuthIdle /\ UiIdle
SpecApi == InitApi /\ [][NextApi]_vars

\* =====================================================================
\* Part III: the auth store (authStore.ts) at application start and after
\* =====================================================================

\* the stages of initialize() (authStore.ts:36-56)
InitStages == {"getAccessToken", "getMe", "clearAccess", "clearRefresh"}

\* the finally block of initialize (line 54)
initializeFinally ==
  /\ isLoading' = FALSE
  /\ isInitialized' = TRUE
  /\ authPc' = "idle"

\* RootLayout's effect calls initialize(): up to the first await (lines 37-40)
Initialize ==
  /\ authPc = "start"
  /\ isLoading' = TRUE
  /\ error' = NULL
  /\ authPc' = "getAccessToken"
  /\ Event("other", NULL)
  /\ UNCHANGED <<isInitialized, user, accessToken, refreshToken, logoutPending>>
  /\ UNCHANGED <<isRefreshing, refreshSubscribers, requests, serverToken, issued>>
  /\ UNCHANGED <<currentGeneration, isGenerating, generationError, enhancedPrompt,
                 pollingInterval, timers, polls, creating, server, getByIdCalls>>
  /\ UNCHANGED uiVars

AuthFrame ==
  /\ UNCHANGED <<isRefreshing, refreshSubscribers, requests, serverToken, issued>>
  /\ UNCHANGED <<currentGeneration, isGenerating, generationError, enhancedPrompt,
                 pollingInterval, timers, polls, creating, server, getByIdCalls>>
  /\ UNCHANGED uiVars

\* a variant of InitTokenRead that returns without the finally block when no
\* token is read
InitTokenReadSkipsFinally(ok) ==
  /\ authPc = "getAccessToken"
  /\ IF ok /\ accessToken # NoToken
     THEN authPc' = "getMe" /\ UNCHANGED <<isLoading, isInitialized>>
     ELSE authPc' = "idle" /\ UNCHANGED <<isLoading, isInitialized>>
  /\ Event("other", NULL)
  /\ UNCHANGED <<error, user, accessToken, refreshToken, logoutPending>>
  /\ AuthFrame

\* tokenStorage.getAccessToken() settles (part_014:28-34): the stored token,
\* or null when SecureStore throws; without a token initialize is over
InitTokenRead(ok) ==
  /\ authPc = "getAccessToken"
  /\ IF ok /\ accessToken # NoToken
     THEN authPc' = "getMe" /\ UNCHANGED <<isLoading, isInitialized>>
     ELSE initializeFinally
  /\ Event("other", NULL)
  /\ UNCHANGED <<error, user, accessToken, refreshToken, logoutPending>>
  /\ AuthFrame

\* authApi.getMe() resolves: set({ user }), then the finally block.
\* refreshed: the call was answered 401 first and the interceptor stored a
\* new token pair before replaying it (part_014:137-156)
GetMeResolved(refreshed) ==
  /\ authPc = "getMe"
  /\ user' = "user"
  /\ initializeFinally
  /\ IF refreshed
     THEN refreshToken # NoToken /\ accessToken' = 2 /\ refreshToken' = 2
     ELSE UNCHANGED <<accessToken, refreshToken>>
  /\ Event("getMe", NULL)
  /\ UNCHANGED <<error, logoutPending>>
  /\ AuthFrame

\* authApi.getMe() rejects.  forced: the rejection is the refresh error of the
\* 401 interceptor, which has deleted both tokens and called logout()
\* (part_014:157-166) before the rejection reaches initialize
GetMeRejected(forced) ==
  /\ authPc = "getMe"
  /\ authPc' = "clearAccess"
  /\ IF forced
     THEN /\ accessToken' = NoToken /\ refreshToken' = NoToken
          /\ logoutPending' = TRUE
          /\ isLoading' = TRUE
     ELSE UNCHANGED <<accessToken, refreshToken, logoutPending, isLoading>>
  /\ Event("other", NULL)
  /\ UNCHANGED <<isInitialized, error, user>>
  /\ AuthFrame

\* clearTokens, first delete (part_014:50); when SecureStore throws, the outer
\* catch of initialize logs and the finally block runs
InitClearAccess(ok) ==
  /\ authPc = "clearAccess"
  /\ IF ok
     THEN /\ accessToken' = NoToken
          /\ authPc' = "clearRefresh"
          /\ Event("other", NULL)
          /\ UNCHANGED <<isLoading, isInitialized>>
     ELSE /\ initializeFinally
          /\ Event("storageError", NULL)
          /\ UNCHANGED accessToken
  /\ UNCHANGED <<error, user, refreshToken, logoutPending>>
  /\ AuthFrame

\* clearTokens, second delete (part_014:51), then the finally block
InitClearRefresh(ok) ==
  /\ authPc = "clearRefresh"
  /\ IF ok
     THEN refreshToken' = NoToken /\ Event("tokensCleared", NULL)
     ELSE UNCHANGED refreshToken /\ Event("storageError", NULL)
  /\ initializeFinally
  /\ UNCHANGED <<error, user, accessToken, logoutPending>>
  /\ AuthFrame

\* the login screen calls login(): up to the await (lines 60-63); RootLayout
\* shows the screens only while isInitialized and not isLoading
Login ==
  /\ authPc = "idle" /\ isInitialized /\ ~isLoading
  /\ user = NULL
  /\ isLoading' = TRUE
  /\ error' = NULL
  /\ authPc' = "login"
  /\ Event("other", NULL)
  /\ UNCHANGED <<isInitialized, user, accessToken, refreshToken, logoutPending>>
  /\ AuthFrame

\* POST /auth/login answered 2xx: authApi.login goes on to setTokens
LoginAccepted ==
  /\ authPc = "login"
  /\ authPc' = "loginSetAccess"
  /\ Event("other", NULL)
  /\ UNCHANGED <<isLoading, isInitialized, error, user, accessToken, refreshToken,
                 logoutPending>>
  /\ AuthFrame

\* authApi.login rejects (lines 65-73)
LoginRejected ==
  /\ authPc = "login"
  /\ error' = "Login failed. Please check your credentials."
  /\ isLoading' = FALSE
  /\ authPc' = "idle"
  /\ Event("other", NULL)
  /\ UNCHANGED <<isInitialized, user, accessToken, refreshToken, logoutPending>>
  /\ AuthFrame

\* setTokens, first write (part_014:45)
LoginSetAccess ==
  /\ authPc = "loginSetAccess"
  /\ accessToken' = 1
  /\ authPc' = "loginSetRefresh"
  /\ Event("other", NULL)
  /\ UNCHANGED <<isLoading, isInitialized, error, user, refreshToken, logoutPending>>
  /\ AuthFrame

\* setTokens, second write; authApi.login resolves: set({ user }), finally
LoginSetRefresh ==
  /\ authPc = "loginSetRefresh"
  /\ refreshToken' = 1
  /\ user' = "user"
  /\ isLoading' = FALSE
  /\ authPc' = "idle"
  /\ Event("other", NULL)
  /\ UNCHANGED <<isInitialized, error, accessToken, logoutPending>>
  /\ AuthFrame

\* the profile screen calls logout(): up to the await (lines 98-100)
Logout ==
  /\ authPc = "idle" /\ isInitialized /\ ~isLoading
  /\ user # NULL
  /\ ~logoutPending
  /\ isLoading' = TRUE
  /\ logoutPending' = TRUE
  /\ Event("other", NULL)
  /\ UNCHANGED <<isInitialized, error, authPc, user, accessToken, refreshToken>>
  /\ AuthFrame

\* the profile screen calls updateUser(data): up to the await (lines 122-124)
UpdateUser ==
  /\ authPc = "idle" /\ isInitialized /\ ~isLoading
  /\ user # NULL
  /\ isLoading' = TRUE
  /\ error' = NULL
  /\ authPc' = "updateMe"
  /\ Event("other", NULL)
  /\ UNCHANGED <<isInitialized, user, accessToken, refreshToken, logoutPending>>
  /\ AuthFrame

\* authApi.updateMe resolves (lines 125, 134)
UpdateResolved ==
  /\ authPc = "updateMe"
  /\ user' = "updatedUser"
  /\ isLoading' = FALSE
  /\ authPc' = "idle"
  /\ Event("other", NULL)
  /\ UNCHANGED <<isInitialized, error, accessToken, refreshToken, logoutPending>>
  /\ AuthFrame

\* authApi.updateMe rejects (lines 126-134); forced as in GetMeRejected
UpdateRejected(forced) ==
  /\ authPc = "updateMe"
  /\ error' = "Failed to update profile."
  /\ isLoading' = FALSE
  /\ authPc' = "idle"
  /\ IF forced
     THEN /\ accessToken' = NoToken /\ refreshToken' = NoToken
          /\ logoutPending' = TRUE
     ELSE UNCHANGED <<accessToken, refreshToken, logoutPending>>
  /\ Event("other", NULL)
  /\ UNCHANGED <<isInitialized, user>>
  /\ AuthFrame

\* clearError (line 139)
ClearError ==
  /\ error # NULL
  /\ error' = NULL
  /\ Event("other", NULL)
  /\ UNCHANGED <<isLoading, isInitialized, authPc, user, accessToken, refreshToken,
                 logoutPending>>
  /\ AuthFrame

NextAuth ==
  \/ Initialize
  \/ \E ok \in BOOLEAN : InitTokenRead(ok)
  \/ \E refreshed \in BOOLEAN : GetMeResolved(refreshed)
  \/ \E forced \in BOOLEAN : GetMeRejected(forced)
  \/ \E ok \in BOOLEAN : InitClearAccess(ok)
  \/ \E ok \in BOOLEAN : InitClearRefresh(ok)
  \/ Login
  \/ LoginAccepted
  \/ LoginRejected
  \/ LoginSetAccess
  \/ LoginSetRefresh
  \/ Logout
  \/ LogoutSettled
  \/ UpdateUser
  \/ UpdateResolved
  \/ \E forced \in BOOLEAN : UpdateRejected(forced)
  \/ ClearError

\* application start: nothing initialized, tokens of an earlier session may
\* be in secure storage
AuthInit ==
  /\ isLoading = FALSE /\ isInitialized = FALSE /\ error = NULL /\ authPc = "start"
  /\ user = NULL /\ logoutPending = FALSE
  /\ accessToken \in {NoToken, 1}
  /\ refreshToken \in {NoToken, 1}
  /\ isRefreshing = FALSE /\ refreshSubscribers = <<>> /\ requests = <<>>
  /\ serverToken = NoToken /\ issued = 0

InitAuth == GenInit /\ AuthInit /\ UiIdle
SpecAuth == InitAuth /\ [][NextAuth]_vars

\* ---------------------------------------------------------------------
\* Properties of Part III (specification SpecAuth)
\* ---------------------------------------------------------------------

\* initialize() returns in this step
InitializeReturns == authPc \in InitStages /\ authPc' = "idle"

MaxMessages == 3
MaxSends == 2

Prompts == {"A sunset", "A mountain"}

ChatFrame ==
  /\ UNCHANGED <<currentGeneration, isGenerating, generationError, enhancedPrompt,
                 pollingInterval, timers, polls, creating, server, getByIdCalls>>
  /\ UNCHANGED <<apiVars, authVars, mounted, loads>>

\* sendMessage(message) up to the await (lines 247-256)
SendMessage ==
  /\ chatSends < MaxSends
  /\ Len(chat.messages) < MaxMessages
  /\ chat' = [chat EXCEPT !.messages = Append(@, [role |-> "user", content |-> "message"]),
                          !.isLoading = TRUE, !.error = NULL]
  /\ chatSends' = chatSends + 1
  /\ Event("other", NULL)
  /\ UNCHANGED <<returned, settings>>
  /\ ChatFrame

\* chatApi.chat resolves (lines 258-274)
ChatResolved(suggested) ==
  /\ chatSends > 0
  /\ Len(chat.messages) < MaxMessages
  /\ chat' = [chat EXCEPT !.messages = Append(@, [role |-> "assistant", content |-> "reply"]),
                          !.suggestedPrompt = suggested, !.isLoading = FALSE]
  /\ chatSends' = chatSends - 1
  /\ Event("other", NULL)
  /\ UNCHANGED <<returned, settings>>
  /\ ChatFrame

\* chatApi.chat rejects (lines 275-285)
ChatRejected ==
  /\ chatSends > 0
  /\ chat' = [chat EXCEPT !.error = "Failed to send message", !.isLoading = FALSE]
  /\ chatSends' = chatSends - 1
  /\ Event("other", NULL)
  /\ UNCHANGED <<returned, settings>>
  /\ ChatFrame

\* clearChat (lines 289-294)
ClearChat ==
  /\ chat' = [chat EXCEPT !.messages = <<>>, !.suggestedPrompt = NULL, !.error = NULL]
  /\ Event("other", NULL)
  /\ UNCHANGED <<chatSends, returned, settings>>
  /\ ChatFrame

\* setSuggestedPrompt(prompt) (line 300)
SetSuggestedPrompt(prompt) ==
  /\ chat' = [chat EXCEPT !.suggestedPrompt = prompt]
  /\ Event("other", NULL)
  /\ UNCHANGED <<chatSends, returned, settings>>
  /\ ChatFrame

\* a variant of useSuggestedPrompt that only reads
useSuggestedPromptOnlyReads(c) == [state |-> c, result |-> c.suggestedPrompt]

\* useSuggestedPrompt (lines 303-307): the state it leaves and what it returns
useSuggestedPrompt(c) ==
  [state |-> [c EXCEPT !.suggestedPrompt = NULL], result |-> c.suggestedPrompt]

UseSuggestedPrompt ==
  /\ chat' = useSuggestedPrompt(chat).state
  /\ returned' = useSuggestedPrompt(chat).result
  /\ Event("useSuggestedPrompt", NULL)
  /\ UNCHANGED <<chatSends, settings>>
  /\ ChatFrame

NextChat ==
  \/ SendMessage
  \/ \E suggested \in Prompts \cup {NULL} : ChatResolved(suggested)
  \/ ChatRejected
  \/ ClearChat
  \/ \E prompt \in Prompts \cup {NULL} : SetSuggestedPrompt(prompt)
  \/ UseSuggestedPrompt

InitChat == GenInit /\ ApiIdle /\ AuthIdle /\ UiIdle
SpecChat == InitChat /\ [][NextChat]_vars

\* C22: useSuggestedPrompt returns the suggestedPrompt held at the call and
\* leaves suggestedPrompt = null, so a call that follows it immediately
\* returns null; messages, isLoading and error are not changed.
C22_UseSuggestedPromptConsumesOnce ==
  [][lastEvent'.type = "useSuggestedPrompt" =>
       /\ returned' = chat.suggestedPrompt
       /\ chat'.suggestedPrompt = NULL
       /\ chat'.messages = chat.messages
       /\ chat'.isLoading = chat.isLoading
       /\ chat'.error = chat.error
       /\ lastEvent.type = "useSuggestedPrompt" => returned' = NULL]_vars

C22_Witness ==
  /\ lastEvent.type = "useSuggestedPrompt"
  /\ returned \in Prompts
  /\ chat.suggestedPrompt = NULL
  /\ chat.messages # <<>>
  /\ chat.error # NULL

\* ------------------------------------------------------ settings store
Fields == DOMAIN DEFAULT_SETTINGS

Values ==
  [theme |-> {"light", "dark", "system"},
   defaultStyle |-> {"vivid", "natural"},
   defaultQuality |-> {"standard", "hd"},
   defaultSize |-> {"1024x1024", "1792x1024"},
   autoEnhancePrompts |-> BOOLEAN,
   notificationsEnabled |-> BOOLEAN,
   hapticFeedbackEnabled |-> BOOLEAN]

\* zustand's set(partial): the fields of partial replace those of the state
set(st, partial) ==
  [f \in DOMAIN st |-> IF f \in DOMAIN partial THEN partial[f] ELSE st[f]]

\* a variant of resetToDefaults that keeps the theme
resetToDefaultsKeepsTheme(st) ==
  set(st, [f \in Fields \ {"theme"} |-> DEFAULT_SETTINGS[f]])

\* resetToDefaults (settingsStore.ts:67)
resetToDefaults(st) == set(st, DEFAULT_SETTINGS)

\* setTheme, setDefaultStyle, setDefaultQuality, setDefaultSize,
\* setAutoEnhancePrompts, setNotificationsEnabled, setHapticFeedbackEnabled
\* (settingsStore.ts:60-66): each is set({ field: value })
setField(st, field, value) == set(st, [f \in {field} |-> value])

SettingsFrame ==
  /\ UNCHANGED <<currentGeneration, isGenerating, generationError, enhancedPrompt,
                 pollingInterval, timers, polls, creating, server, getByIdCalls>>
  /\ UNCHANGED <<apiVars, authVars, chat, chatSends, returned, mounted, loads>>

SetSetting(field, value) ==
  /\ settings' = setField(settings, field, value)
  /\ Event(field, NULL)
  /\ SettingsFrame

ResetToDefaults ==
  /\ settings' = resetToDefaults(settings)
  /\ Event("resetToDefaults", IF settings = DEFAULT_SETTINGS THEN NULL ELSE "changed")
  /\ SettingsFrame

NextSettings ==
  \/ \E field \in Fields : \E value \in Values[field] : SetSetting(field, value)
  \/ ResetToDefaults

InitSettings == GenInit /\ ApiIdle /\ AuthIdle /\ UiIdle
SpecSettings == InitSettings /\ [][NextSettings]_vars

\* C23: resetToDefaults, after any sequence of setter calls, leaves all seven
\* settings at their defaults; a setter changes no field but its own.
C23_ResetAndSetterFrames ==
  [][/\ lastEvent'.type = "resetToDefaults" =>
          /\ settings' = DEFAULT_SETTINGS
          /\ settings'.theme = "system" /\ settings'.defaultStyle = "vivid"
          /\ settings'.defaultQuality = "standard"
          /\ settings'.defaultSize = "1024x1024"
          /\ settings'.autoEnhancePrompts /\ settings'.notificationsEnabled
          /\ settings'.hapticFeedbackEnabled
     /\ lastEvent'.type \in Fields =>
          \A f \in Fields \ {lastEvent'.type} : settings'[f] = settings[f]]_vars

C23_Witness ==
  /\ lastEvent.type = "resetToDefaults"
  /\ lastEvent.id = "changed"
  /\ settings = DEFAULT_SETTINGS

\* ---------------------------------------------------------------------
\* The generation detail screen (app/(tabs)/generate/[id].tsx), opened for a
\* generation the service already knows
\* ---------------------------------------------------------------------
\* most getById loads of the detail screen in flight at once
MaxLoads == 1

ScreenFrame ==
  /\ UNCHANGED <<creating, server>>
  /\ UNCHANGED <<apiVars, authVars, chat, chatSends, returned, settings>>

\* setCurrentGeneration(generation) (generationStore.ts:163)
setCurrentGeneration(w, generation) ==
  [w EXCEPT !.currentGeneration = generation]

\* the effect on mount with the record already in the store (lines 43-51)
MountLoaded(id) ==
  /\ mounted = NULL
  /\ HasRecord
  /\ currentGeneration.id = id
  /\ ~IsTerminal(currentGeneration.status) => HasRoom
  /\ mounted' = id
  /\ Commit(IF ~IsTerminal(currentGeneration.status)
            THEN startPolling(World, id) ELSE World)
  /\ Event("mount", id)
  /\ UNCHANGED loads
  /\ ScreenFrame

\* the effect on mount up to await generateApi.getById(id) (lines 53-55)
MountLoading(id) ==
  /\ mounted = NULL
  /\ ~(HasRecord /\ currentGeneration.id = id)
  /\ BagCardinality(loads) < MaxLoads
  /\ mounted' = id
  /\ loads' = loads (+) SetToBag({[id |-> id, resp |-> NullRecord]})
  /\ Event("mount", id)
  /\ UNCHANGED <<currentGeneration, isGenerating, generationError, enhancedPrompt,
                 pollingInterval, timers, polls, getByIdCalls>>
  /\ ScreenFrame

\* the effect cleanup when the screen goes away (lines 71-73)
Unmount ==
  /\ mounted # NULL
  /\ mounted' = NULL
  /\ Commit(stopPolling(World))
  /\ Event("unmount", mounted)
  /\ UNCHANGED loads
  /\ ScreenFrame

\* the service answers the load of a generation it knows with the full
\* record; the answer then travels
LoadRespond(l) ==
  /\ BagIn(l, loads)
  /\ l.resp = NullRecord
  /\ server[l.id] # "none"
  /\ loads' = (loads (-) SetToBag({l})) (+) SetToBag({[l EXCEPT !.resp = FullRecord(l.id)]})
  /\ UNCHANGED <<genVars, apiVars, authVars, chat, chatSends, returned, settings,
                 mounted>>

\* loadGeneration after getById resolved (lines 56-61); the closure does not
\* look at whether its screen is still there
loadResolved(w, l) ==
  LET generation == l.resp
      w1 == setCurrentGeneration(w, generation)
  IN  IF ~IsTerminal(generation.status)
      THEN startPolling(w1, l.id) ELSE w1

LoadResolved(l) ==
  /\ BagIn(l, loads)
  /\ l.resp # NullRecord
  /\ ~IsTerminal(l.resp.status) => HasRoom
  /\ loads' = loads (-) SetToBag({l})
  /\ Commit(loadResolved(World, l))
  /\ Event("loaded", l.id)
  /\ UNCHANGED mounted
  /\ ScreenFrame

\* loadGeneration after getById rejected (lines 62-66): router.back() takes
\* the screen on top away, whose cleanup then stops polling
LoadRejected(l) ==
  /\ BagIn(l, loads)
  /\ loads' = loads (-) SetToBag({l})
  /\ mounted' = NULL
  /\ Commit(IF mounted # NULL THEN stopPolling(World) ELSE World)
  /\ Event("loadError", l.id)
  /\ ScreenFrame

LoadSet == BagToSet(loads)

NextScreen ==
  \/ \E id \in Ids : MountLoaded(id)
  \/ \E id \in Ids : MountLoading(id)
  \/ Unmount
  \/ \E l \in LoadSet : LoadRespond(l)
  \/ \E l \in LoadSet : LoadResolved(l)
  \/ \E l \in LoadSet : LoadRejected(l)
  \/ StopPolling
  \/ ClearCurrentGeneration
  \/ \E t \in timers : Tick(t)
  \/ \E id \in Ids, st \in GenerationStatus : ServerAdvance(id, st)
  \/ \E p \in PollSet, resp \in AllPayloads : ServerRespond(p, resp)
  \/ \E p \in PollSet : StatusResolved(p)
  \/ \E p \in PollSet : StatusRejected(p)
  \/ \E p \in PollSet : FetchResolved(p)
  \/ \E p \in PollSet : FetchRejected(p)

\* the generation made earlier that the service holds
Known == CHOOSE i \in Ids : TRUE

\* the store as created; the service holds a generation made earlier
InitScreen ==
  /\ currentGeneration = NullRecord
  /\ isGenerating = FALSE
  /\ generationError = NULL
  /\ enhancedPrompt = NULL
  /\ pollingInterval = NoTimer
  /\ timers = {}
  /\ polls = EmptyBag
  /\ creating = NULL
  /\ server = [i \in Ids |-> IF i = Known THEN "pending" ELSE "none"]
  /\ getByIdCalls = [i \in Ids |-> 0]
  /\ lastEvent = [type |-> "init", id |-> NULL]
  /\ ApiIdle /\ AuthIdle /\ UiIdle

SpecScreen == InitScreen /\ [][NextScreen]_vars

\* C29: once the detail screen for an id has been unmounted no poll timer
\* started for it is active: every live timer polls the id of the screen that
\* is mounted, also when a load that was in flight at unmount time resolves
\* afterwards with a non-terminal status.
C29_NoTimerAfterUnmount ==
  \A t \in timers : mounted = t.id

\* ---------------------------------------------------------------------
\* Tracking left alone: the generation store when the user submits and then
\* neither stops polling nor clears the generation
\* ---------------------------------------------------------------------
NextTracking ==
  \/ Generate
  \/ \E id \in Ids : ServerCreate(id)
  \/ GenerateResolved
  \/ GenerateRejected
  \/ \E t \in timers : Tick(t)
  \/ \E id \in Ids, st \in GenerationStatus : ServerAdvance(id, st)
  \/ \E p \in PollSet, resp \in AllPayloads : ServerRespond(p, resp)
  \/ \E p \in PollSet : StatusResolved(p)
  \/ \E p \in PollSet : StatusRejected(p)
  \/ \E p \in PollSet : FetchResolved(p)
  \/ \E p \in PollSet : FetchRejected(p)

SpecTracking == Init /\ [][NextTracking]_vars

\* every response has arrived and nothing is left to act for the record
Settled ==
  /\ HasRecord
  /\ creating = NULL
  /\ polls = EmptyBag
  /\ pollingInterval = NoTimer
  /\ timers = {}

\* C30: polling that is never stopped by the user ends, once the service has
\* reached a terminal status and every outstanding response has arrived,
\* with the timer cancelled, isGenerating false and the stored record showing
\* that terminal status, and it stays there.  Finite form: whenever the
\* tracker has settled (timer cancelled, no request outstanding) the stored
\* record's status is the service's terminal status and isGenerating is
\* false.
C30_SettlesInTerminalStatus ==
  Settled =>
    /\ ~isGenerating
    /\ IsTerminal(server[currentGeneration.id])
    /\ currentGeneration.status = server[currentGeneration.id]

\* ---------------------------------------------------------------------
\* Properties of Part II (specification SpecApi)
\* ---------------------------------------------------------------------

\* C10: a request queued behind a refresh is settled by that refresh, also when
\* the refresh fails: a caller still waiting always has its callback in
\* refreshSubscribers, so none is left pending with nothing to settle it.
C10_QueuedCallersSettled ==
  \A r \in Reqs : requests[r].pc = "waiting" => r \in Range(refreshSubscribers)

\* the request's error handler is inside the refresh catch block (lines 157-167)
InCatch(req) == req.pc \in {"clearAccess", "clearRefresh"}

\* C11: when the refresh of a request fails (missing refresh token or failed
\* refresh call), the request is rejected with the refresh error, and in the
\* state in which it is rejected both stored tokens are cleared and logout
\* has been started on the auth store; logout ends with user = null.
C11_RefreshFailureLogsOut ==
  [][/\ \A r \in Reqs :
          InCatch(requests[r]) /\ ~InCatch(requests'[r]) =>
            /\ requests'[r].pc = "rejected"
            /\ requests'[r].result = "refreshError"
            /\ accessToken' = NoToken
            /\ refreshToken' = NoToken
            /\ logoutPending'
     /\ logoutPending /\ ~logoutPending' => user' = NULL]_vars

\* the request started the refresh itself (originalRequest._retry, line 134)
Refresher(req) == req.kind = "api" /\ req.retry

\* C12: a request whose 401 starts the refresh calls the refresh endpoint,
\* writes the new access token and then the new refresh token, and only then
\* is replayed; the replay carries the newly issued access token (or a still
\* newer one), never the token that got the 401; the caller is resolved only
\* with the response to the replay and is rejected with a 401 only if that
\* 401 answered the replay.
C12_RefreshThenReplay ==
  [][\A r \in Reqs :
       LET req == requests[r]
           nxt == requests'[r]
       IN  /\ req.pc = "post" /\ nxt.pc = "setAccess" => nxt.fresh > req.auth
           /\ req.pc = "setAccess" /\ nxt.pc # "setAccess" =>
                nxt.pc = "setRefresh" /\ accessToken' = req.fresh
           /\ req.pc = "setRefresh" /\ nxt.pc # "setRefresh" =>
                nxt.pc = "replay" /\ refreshToken' = req.fresh /\ nxt.auth = req.fresh
           /\ Refresher(req) /\ nxt.pc = "replay" => req.pc \in {"setRefresh", "replay"}
           /\ Refresher(req) /\ req.pc = "replay" /\ nxt.pc # "replay" =>
                nxt.pc = "sent" /\ nxt.auth >= req.fresh /\ nxt.replays = req.replays + 1
           /\ Refresher(req) /\ nxt.pc = "resolved" => nxt.replays >= 1
           /\ Refresher(req) /\ nxt.result = "401" => nxt.replays >= 1]_vars

C12_Witness ==
  \E r \in Reqs :
    /\ Refresher(requests[r])
    /\ requests[r].pc = "resolved"
    /\ requests[r].result = "data"
    /\ requests[r].replays = 1
    /\ requests[r].auth = requests[r].fresh
    /\ accessToken = requests[r].fresh
    /\ refreshToken = requests[r].fresh

\* the requests whose POST /auth/refresh is outstanding (lines 144-147)
RefreshCalls == {r \in Reqs : requests[r].pc = "post"}

\* C13: at most one token-refresh call is in flight at any time, whatever the
\* interleaving of the requests that receive a 401.
C13_OneRefreshInFlight == Cardinality(RefreshCalls) <= 1

C13_Witness ==
  \E r, q \in Reqs :
    /\ requests[r].pc = "post"
    /\ requests[q].pc = "waiting"
    /\ isRefreshing

\* C14: a request that gets a 401 while a refresh is in flight starts no
\* refresh of its own: it is queued in refreshSubscribers and stays pending;
\* when the refresh succeeds it is handed to the client again once, with the
\* access token that refresh issued in its header (never an older one), and
\* only the response to that replay can settle its caller.
C14_QueuedReplayedWithNewToken ==
  [][\A r \in Reqs :
       LET req == requests[r]
           nxt == requests'[r]
       IN  /\ isRefreshing /\ req.pc = "sent" =>
                nxt.pc \notin {"getRefreshToken", "post"} /\ nxt.retry = req.retry
           /\ req.pc # "waiting" /\ nxt.pc = "waiting" =>
                /\ isRefreshing /\ isRefreshing'
                /\ r \in Range(refreshSubscribers')
                /\ Cardinality(RefreshCalls) = Cardinality({q \in Reqs : requests'[q].pc = "post"})
           /\ req.pc = "waiting" /\ nxt.pc # "waiting" =>
                /\ nxt.pc = "replay"
                /\ \E q \in Reqs : requests[q].pc = "setRefresh" /\ nxt.auth = requests[q].fresh
                /\ nxt.auth = accessToken \/ accessToken = NoToken
                /\ nxt.auth >= req.auth
                /\ nxt.replays = req.replays
           /\ ~req.retry /\ req.pc = "replay" /\ nxt.pc # "replay" =>
                nxt.pc = "sent" /\ nxt.auth >= req.auth /\ nxt.replays = req.replays + 1]_vars

C14_Witness ==
  \E r \in Reqs :
    /\ requests[r].kind = "api"
    /\ ~requests[r].retry
    /\ requests[r].replays = 1
    /\ requests[r].pc = "resolved"
    /\ requests[r].result = "data"
    /\ requests[r].auth = accessToken
    /\ accessToken > 1

\* C15: a request leaves with an Authorization header exactly when an access
\* token is stored and the request is not a login/register request; a
\* login/register request never carries the header, whatever is stored.
C15_HeaderOnlyOnProtectedRequests ==
  [][\A r \in Reqs :
       requests[r].pc = "new" /\ requests'[r].pc = "sent" =>
         (requests'[r].auth # NoToken <=>
            (accessToken # NoToken /\ requests'[r].kind = "api"))]_vars

\* C16: a 401 (or any other failure) answering a login/register request is
\* rejected to the caller as it is: no refresh is started, the request is not
\* queued, no stored token is touched and no logout is started, also while
\* another request's refresh is in flight.
C16_Login401RejectedUnchanged ==
  [][\A r \in Reqs :
       requests[r].kind = "login" /\ requests[r].pc = "sent" /\ requests'[r].pc # "sent" =>
         /\ requests'[r].pc = "rejected"
         /\ requests'[r].result \in {"401", "error", "network"}
         /\ ~requests'[r].retry
         /\ UNCHANGED <<accessToken, refreshToken, isRefreshing, refreshSubscribers,
                        user, logoutPending>>
         /\ \A q \in Reqs \ {r} : requests'[q] = requests[q]]_vars

C16_Witness ==
  \E r, q \in Reqs :
    /\ requests[r].kind = "login"
    /\ requests[r].pc = "rejected"
    /\ requests[r].result = "401"
    /\ requests[q].pc = "post"
    /\ isRefreshing
    /\ accessToken # NoToken /\ refreshToken # NoToken /\ user # NULL

\* C17: refresh-and-retry happens at most once per request: no request,
\* whether it started the refresh or was queued behind one, is handed to the
\* client again more than once.
C17_ReplayedAtMostOnce == \A r \in Reqs : requests[r].replays <= 1

\* C18: when the replay of a request is answered with 401 again, logout is
\* forced: in that step logout is started on the auth store (or the user is
\* already null).
C18_SecondFailureForcesLogout ==
  [][\A r \in Reqs :
       LET req == requests[r]
           nxt == requests'[r]
       IN  (/\ req.pc = "sent" /\ req.replays >= 1
            /\ nxt.result = "401" \/ nxt.pc \in {"getRefreshToken", "waiting"})
           => logoutPending' \/ user' = NULL]_vars

====
